---- MODULE Spec2Model ----
(***************************************************************************)
(* Reminder bot: the SQLite reminder store (app/db.py), the delivery       *)
(* worker (app/worker.py) and the message handlers                         *)
(* (app/handlers/reminders.py, app/handlers/__init__.py, app/bot.py).      *)
(*                                                                         *)
(* Time is counted in clock units; MinuteLen units make one minute, so a   *)
(* datetime can carry a sub-minute part that isoformat(timespec="minutes") *)
(* drops.                                                                  *)
(***************************************************************************)
EXTENDS Integers, Sequences, FiniteSets, TLC

\* ------------------------------------------------------------------ bounds
MaxReminders == 2      \* rows the table may hold
MaxClock == 2          \* last instant of the wall clock
MinuteLen == 2         \* clock units per minute
DueLimit == 1          \* due_reminders' limit (default 50), scaled down
ListLimit == 20        \* list_reminders' limit

Chats == {7}
Users == {1, 2}          \* participants who send messages and commands
Creators == {1}        \* participants who create reminders
Texts == {"Test"}
NoId == 0              \* SQL NULL in mention_target_id
NoName == ""           \* SQL NULL in mention_target_name

Ids == 1..MaxReminders
Statuses == {"scheduled", "sent", "completed", "cancelled", "failed"}
Terminal == {"failed", "cancelled", "completed"}

\* datetimes a caller can pass: any instant, one minute past the clock's end included
Instants == 0..(MaxClock + MinuteLen)

Min(a, b) == IF a <= b THEN a ELSE b
Range(s) == {s[i] : i \in DOMAIN s}

\* ------------------------------------------------------------------ store
\* datetime.isoformat(timespec="minutes"): the sub-minute part is dropped. The
\* strings compare as the truncated instants do.
Iso(t) == (t \div MinuteLen) * MinuteLen

\* the UPDATE that closes _ensure_schema, run on every open of the store
ensure_schema(rs) ==
    [i \in DOMAIN rs |->
        IF \/ rs[i].status \notin {"scheduled", "sent"}
           \/ (rs[i].is_sent = 1 /\ rs[i].status # "sent")
           \/ (rs[i].is_sent = 0 /\ rs[i].status # "scheduled")
        THEN [rs[i] EXCEPT !.status = IF rs[i].is_sent = 1 THEN "sent" ELSE "scheduled"]
        ELSE rs[i]]

\* add_reminder raising on an empty text or a remind_at that is not after now
add_reminder_validating(rs, chat_id, creator_id, text, remind_at, mention_id, mention_name, utcnow) ==
    IF text = "" \/ remind_at <= utcnow
    THEN rs
    ELSE Append(rs, [chat_id |-> chat_id,
                     creator_id |-> creator_id,
                     text |-> text,
                     remind_at |-> Iso(remind_at),
                     is_sent |-> 0,
                     status |-> "scheduled",
                     mention_target_id |-> mention_id,
                     mention_target_name |-> mention_name,
                     created_at |-> utcnow])

\* the columns _ensure_schema adds to a table that lacks them, with their defaults
NewColumns == [status |-> "scheduled", mention_target_id |-> NoId, mention_target_name |-> NoName]

\* the three ALTER TABLE ... ADD COLUMN, each run when its column is missing
add_columns(rs) ==
    [i \in DOMAIN rs |->
        IF DOMAIN NewColumns \subseteq DOMAIN rs[i] THEN rs[i] ELSE rs[i] @@ NewColumns]

\* open_store without the UPDATE that derives status from is_sent
open_store_no_backfill(rs) == add_columns(rs)

\* ReminderStore(db_path): _ensure_schema on the table found in the file
open_store(rs) == ensure_schema(add_columns(rs))

\* INSERT ... VALUES (?, ?, ?, ?, ?, 'scheduled', ?, ?); the new id is Len(rs) + 1
add_reminder(rs, chat_id, creator_id, text, remind_at, mention_id, mention_name, utcnow) ==
    Append(rs, [chat_id |-> chat_id,
                creator_id |-> creator_id,
                text |-> text,
                remind_at |-> Iso(remind_at),
                is_sent |-> 0,
                status |-> "scheduled",
                mention_target_id |-> mention_id,
                mention_target_name |-> mention_name,
                created_at |-> utcnow])

\* DueSet with "remind_at < ?" for "remind_at <= ?"
DueSet_strict(rs, now) ==
    {i \in DOMAIN rs : /\ rs[i].status = "scheduled"
                       /\ rs[i].is_sent = 0
                       /\ rs[i].remind_at < Iso(now)}

\* DueSet with the status and is_sent conditions left out
DueSet_any_status(rs, now) ==
    {i \in DOMAIN rs : rs[i].remind_at <= Iso(now)}

\* the rows the WHERE clause of due_reminders selects
DueSet(rs, now) ==
    {i \in DOMAIN rs : /\ rs[i].status = "scheduled"
                       /\ rs[i].is_sent = 0
                       /\ rs[i].remind_at <= Iso(now)}

\* SELECT ... ORDER BY remind_at ASC LIMIT ?: the id sequences the query may
\* return (SQL leaves the order of rows with equal remind_at open)
due_reminders(rs, now, limit) ==
    LET Q == DueSet(rs, now)
        n == Min(limit, Cardinality(Q))
    IN {s \in [1..n -> Q] :
          /\ \A a, b \in 1..n : a < b => s[a] # s[b] /\ rs[s[a]].remind_at <= rs[s[b]].remind_at
          /\ \A q \in Q \ Range(s) : \A a \in 1..n : rs[s[a]].remind_at <= rs[q].remind_at}

\* mark_sent with "is_sent = is_sent + 1"
mark_sent_counting(rs, ids) ==
    [i \in DOMAIN rs |->
        IF i \in ids THEN [rs[i] EXCEPT !.is_sent = @ + 1, !.status = "sent"] ELSE rs[i]]

\* mark_sent with "AND status = 'scheduled'" added to the WHERE clause
mark_sent_guarded(rs, ids) ==
    [i \in DOMAIN rs |->
        IF i \in ids /\ rs[i].status = "scheduled"
        THEN [rs[i] EXCEPT !.is_sent = 1, !.status = "sent"] ELSE rs[i]]

\* mark_sent with "SET status = 'sent'" alone
mark_sent_status_only(rs, ids) ==
    [i \in DOMAIN rs |->
        IF i \in ids THEN [rs[i] EXCEPT !.status = "sent"] ELSE rs[i]]

\* UPDATE reminders SET is_sent = 1, status = 'sent' WHERE id IN (ids)
mark_sent(rs, ids) ==
    [i \in DOMAIN rs |->
        IF i \in ids THEN [rs[i] EXCEPT !.is_sent = 1, !.status = "sent"] ELSE rs[i]]

\* list_reminders with ORDER BY created_at ASC
list_reminders_ascending(rs, chat_id, creator_id, limit) ==
    LET Q == {i \in DOMAIN rs : rs[i].chat_id = chat_id /\ rs[i].creator_id = creator_id}
        n == Min(limit, Cardinality(Q))
    IN {s \in [1..n -> Q] :
          /\ \A a, b \in 1..n : a < b => s[a] # s[b] /\ rs[s[a]].created_at <= rs[s[b]].created_at
          /\ \A q \in Q \ Range(s) : \A a \in 1..n : rs[s[a]].created_at <= rs[q].created_at}

\* SELECT ... WHERE chat_id = ? AND creator_id = ? ORDER BY created_at DESC LIMIT ?
list_reminders(rs, chat_id, creator_id, limit) ==
    LET Q == {i \in DOMAIN rs : rs[i].chat_id = chat_id /\ rs[i].creator_id = creator_id}
        n == Min(limit, Cardinality(Q))
    IN {s \in [1..n -> Q] :
          /\ \A a, b \in 1..n : a < b => s[a] # s[b] /\ rs[s[a]].created_at >= rs[s[b]].created_at
          /\ \A q \in Q \ Range(s) : \A a \in 1..n : rs[s[a]].created_at >= rs[q].created_at}

\* ---- store operations whose bodies are not in db.py; modelled from the
\* ---- specification's section 4.1 (they write status / remind_at only)
Owned(rs, id, chat_id, creator_id) ==
    /\ id \in DOMAIN rs
    /\ rs[id].chat_id = chat_id
    /\ rs[id].creator_id = creator_id

mark_failed(rs, id) ==
    [i \in DOMAIN rs |->
        IF i = id /\ rs[i].status = "scheduled" THEN [rs[i] EXCEPT !.status = "failed"] ELSE rs[i]]

cancel_reminder(rs, id, chat_id, creator_id) ==
    IF Owned(rs, id, chat_id, creator_id) /\ rs[id].status = "scheduled"
    THEN [ok |-> TRUE, rows |-> [rs EXCEPT ![id].status = "cancelled"]]
    ELSE [ok |-> FALSE, rows |-> rs]

complete_reminder(rs, id, chat_id, creator_id) ==
    IF Owned(rs, id, chat_id, creator_id) /\ rs[id].status \in {"scheduled", "sent"}
    THEN [ok |-> TRUE, rows |-> [rs EXCEPT ![id].status = "completed"]]
    ELSE [ok |-> FALSE, rows |-> rs]

\* reschedule_reminder without the condition on status
reschedule_any_status(rs, id, chat_id, creator_id, remind_at, now) ==
    IF Owned(rs, id, chat_id, creator_id) /\ remind_at > now
    THEN [ok |-> TRUE, rows |-> [rs EXCEPT ![id].remind_at = Iso(remind_at)]]
    ELSE [ok |-> FALSE, rows |-> rs]

reschedule_reminder(rs, id, chat_id, creator_id, remind_at, now) ==
    IF /\ Owned(rs, id, chat_id, creator_id)
       /\ rs[id].status = "scheduled"
       /\ remind_at > now
    THEN [ok |-> TRUE, rows |-> [rs EXCEPT ![id].remind_at = Iso(remind_at)]]
    ELSE [ok |-> FALSE, rows |-> rs]


\* ------------------------------------------------------------------ commands
BadArg == -1           \* a command argument that is missing or is no integer
AnyId == Ids \cup {MaxReminders + 1}     \* MaxReminders + 1 is never a row
AnyArg == AnyId \cup {BadArg}
BadDate == -1          \* a date text that strptime("%Y-%m-%d %H:%M") rejects

\* what a participant can type as a date: a well-formed "YYYY-MM-DD HH:MM" names a
\* minute (counted from the clock's start); anything else is BadDate
Minutes == 0..((MaxClock \div MinuteLen) + 1)
DateTexts == Minutes \cup {BadDate}

\* parse_datetime: the instant a well-formed text names, NoTime for a ValueError
NoTime == -1
parse_datetime(user_input) ==
    IF user_input \in Minutes THEN user_input * MinuteLen ELSE NoTime

\* handle_cancel: /cancel <id>
handle_cancel_swapped(rs, arg, chat_id, user_id) ==
    IF arg = BadArg
    THEN [rows |-> rs, answer |-> "usage"]
    ELSE LET r == cancel_reminder(rs, arg, user_id, chat_id)
         IN [rows |-> r.rows, answer |-> IF r.ok THEN "cancelled" ELSE "not_cancelled"]

handle_cancel(rs, arg, chat_id, user_id) ==
    IF arg = BadArg
    THEN [rows |-> rs, answer |-> "usage"]
    ELSE LET r == cancel_reminder(rs, arg, chat_id, user_id)
         IN [rows |-> r.rows, answer |-> IF r.ok THEN "cancelled" ELSE "not_cancelled"]

\* handle_done: /done <id>
handle_done_swapped(rs, arg, chat_id, user_id) ==
    IF arg = BadArg
    THEN [rows |-> rs, answer |-> "usage"]
    ELSE LET r == complete_reminder(rs, arg, user_id, chat_id)
         IN [rows |-> r.rows, answer |-> IF r.ok THEN "completed" ELSE "not_completed"]

handle_done(rs, arg, chat_id, user_id) ==
    IF arg = BadArg
    THEN [rows |-> rs, answer |-> "usage"]
    ELSE LET r == complete_reminder(rs, arg, chat_id, user_id)
         IN [rows |-> r.rows, answer |-> IF r.ok THEN "completed" ELSE "not_completed"]

\* handle_move: /move <id> YYYY-MM-DD HH:MM
handle_move(rs, arg, date_text, chat_id, user_id, now) ==
    LET new_datetime == parse_datetime(date_text) IN
    IF arg = BadArg \/ new_datetime = NoTime \/ new_datetime <= now
    THEN [rows |-> rs, answer |-> "error"]
    ELSE LET r == reschedule_reminder(rs, arg, chat_id, user_id, new_datetime, now)
         IN [rows |-> r.rows, answer |-> IF r.ok THEN "moved" ELSE "not_moved"]

\* handle_reminder_action with the creator taken from the row, not from the
\* participant who pressed the button
handle_reminder_action_any_user(rs, action, id, chat_id, user_id) ==
    LET owner == IF id \in DOMAIN rs THEN rs[id].creator_id ELSE user_id
        r == IF action = "done"
             THEN complete_reminder(rs, id, chat_id, owner)
             ELSE cancel_reminder(rs, id, chat_id, owner)
    IN IF action \notin {"done", "cancel"}
       THEN [rows |-> rs, answer |-> "unknown"]
       ELSE [rows |-> r.rows, answer |-> IF r.ok THEN action ELSE "not_updated"]

\* handle_reminder_action: the buttons under a listed reminder, callback data
\* "reminder:<action>:<id>"
handle_reminder_action(rs, action, id, chat_id, user_id) ==
    LET r == IF action = "done"
             THEN complete_reminder(rs, id, chat_id, user_id)
             ELSE cancel_reminder(rs, id, chat_id, user_id)
    IN IF action \notin {"done", "cancel"}
       THEN [rows |-> rs, answer |-> "unknown"]
       ELSE [rows |-> r.rows, answer |-> IF r.ok THEN action ELSE "not_updated"]

\* ------------------------------------------------------------------ state
VARIABLES
    rows,        \* the reminders table: rows[id] is the row with that id
    clock,       \* the wall clock (datetime.now())
    terminated,  \* history: ids whose status has been failed, cancelled or completed
    last,        \* history: the latest call a client made on the store directly
    fsm,         \* FSM storage: per participant, the state and the buffered data
    wpc,         \* reminder_worker: "sleep" (in asyncio.sleep) or "send" (in send_message)
    wdue,        \* reminder_worker: rows of `due` not yet handled; the head is being sent
    sent_ids,    \* reminder_worker: sent_ids
    delivered,   \* history: per id, how many sends returned success (counted up to 2)
    wfailed,     \* history: the ids whose send raised in the worker's tick under way
    hist         \* history: per participant, the data keys entered since the last start
                 \* and the state the last reset found; mark_sent calls of the latest
                 \* tick; the ids the tick under way fetched

storeVars == <<rows, clock, terminated>>
botVars == <<fsm, wpc, wdue, sent_ids, delivered, wfailed, hist>>
vars == <<rows, clock, terminated, last, fsm, wpc, wdue, sent_ids, delivered, wfailed, hist>>

NoText == "<none>"     \* message.text is None (a message without text)
Absent == "<absent>"   \* key "text" absent from the data
NoData == [text |-> Absent, remind_at |-> NoTime]   \* NoTime: no key "remind_at"
Idle == [state |-> "none", data |-> NoData]
NoCall == [op |-> "none", ids |-> {}, pre |-> <<>>, arg |-> 0, ok |-> TRUE, out |-> <<>>]

NoColumn == "<no column>"     \* the status of a row in a table without that column
StatusOf(rs, id) ==
    IF id \notin DOMAIN rs THEN "missing"
    ELSE IF "status" \in DOMAIN rs[id] THEN rs[id].status ELSE NoColumn
Call(op, ids, arg, ok, out) ==
    [op |-> op, ids |-> ids, pre |-> [i \in ids |-> StatusOf(rows, i)],
     arg |-> arg, ok |-> ok, out |-> out]
Terminated(rs) == {i \in DOMAIN rs : rs[i].status \in Terminal}
NoHist ==
    [entered |-> [u \in Users |-> {}],
     reset_from |-> [u \in Users |-> "never"],
     mark_sent_calls |-> 0,
     batch |-> {}, now |-> 0]

Init ==
    /\ rows = <<>>
    /\ clock = 0
    /\ terminated = {}
    /\ last = NoCall
    /\ fsm = [u \in Users |-> Idle]
    /\ wpc = "sleep"
    /\ wdue = <<>>
    /\ sent_ids = <<>>
    /\ delivered = [i \in Ids |-> 0]
    /\ wfailed = {}
    /\ hist = NoHist

\* the store after a call: the table and the history of terminal statuses
Store(rs) ==
    /\ rows' = rs
    /\ terminated' = terminated \cup Terminated(rs)

ClockTick ==
    /\ clock < MaxClock
    /\ clock' = clock + 1
    /\ UNCHANGED <<rows, terminated, last, botVars>>

\* --------------------------------------------- the store called directly
\* (as tests/test_reminder_store.py does)
StoreAdd(chat_id, creator_id, text, remind_at) ==
    /\ Len(rows) < MaxReminders
    /\ Store(add_reminder(rows, chat_id, creator_id, text, remind_at, NoId, NoName, clock))
    /\ last' = Call("add", {Len(rows) + 1}, 0, TRUE, <<>>)
    /\ UNCHANGED <<clock, botVars>>

StoreDue(now, limit) ==
    /\ \E out \in due_reminders(rows, now, limit) :
          last' = [Call("due", {}, now, TRUE, out) EXCEPT !.ids = Range(out)]
    /\ UNCHANGED <<storeVars, botVars>>

StoreMarkSent(ids) ==
    /\ Store(mark_sent(rows, ids))
    /\ last' = Call("mark_sent", ids, 0, TRUE, <<>>)
    /\ UNCHANGED <<clock, botVars>>

StoreMarkFailed(id) ==
    /\ Store(mark_failed(rows, id))
    /\ last' = Call("mark_failed", {id}, 0, TRUE, <<>>)
    /\ UNCHANGED <<clock, botVars>>

StoreCancel(id, chat_id, creator_id) ==
    LET r == cancel_reminder(rows, id, chat_id, creator_id) IN
    /\ Store(r.rows)
    /\ last' = Call("cancel", {id}, 0, r.ok, <<>>)
    /\ UNCHANGED <<clock, botVars>>

StoreComplete(id, chat_id, creator_id) ==
    LET r == complete_reminder(rows, id, chat_id, creator_id) IN
    /\ Store(r.rows)
    /\ last' = Call("complete", {id}, 0, r.ok, <<>>)
    /\ UNCHANGED <<clock, botVars>>

StoreReschedule(id, chat_id, creator_id, remind_at) ==
    LET r == reschedule_reminder(rows, id, chat_id, creator_id, remind_at, clock) IN
    /\ Store(r.rows)
    /\ last' = Call("reschedule", {id}, 0, r.ok, <<>>)
    /\ UNCHANGED <<clock, botVars>>

StoreList(chat_id, creator_id) ==
    /\ \E out \in list_reminders(rows, chat_id, creator_id, ListLimit) :
          last' = [Call("list", {}, 0, TRUE, out) EXCEPT !.ids = Range(out)]
    /\ UNCHANGED <<storeVars, botVars>>

\* store.close() and ReminderStore(db_path) again: _ensure_schema runs
StoreReopen ==
    /\ Store(open_store(rows))
    /\ last' = Call("reopen", DOMAIN rows, 0, TRUE, <<>>)
    /\ UNCHANGED <<clock, botVars>>

NextStore ==
    \/ ClockTick
    \/ \E c \in Chats, u \in Creators, x \in Texts, t \in Instants : StoreAdd(c, u, x, t)
    \/ \E t \in Instants, n \in 1..MaxReminders : StoreDue(t, n)
    \/ \E ids \in SUBSET Ids : StoreMarkSent(ids)
    \/ \E id \in Ids : StoreMarkFailed(id)
    \/ \E id \in Ids, c \in Chats, u \in Users : StoreCancel(id, c, u)
    \/ \E id \in Ids, c \in Chats, u \in Users : StoreComplete(id, c, u)
    \/ \E id \in Ids, c \in Chats, u \in Users, t \in Instants : StoreReschedule(id, c, u, t)
    \/ \E c \in Chats, u \in Users : StoreList(c, u)
    \/ StoreReopen

SpecStore == Init /\ [][NextStore]_vars


\* ------------------------------------------------------------------ capture
DefaultText == "Bez teksta"          \* the default of data.get("text", ...)
DataText(data) == IF data.text = Absent THEN DefaultText ELSE data.text

\* a message at the mention step: its text and its entities, each entity with its
\* type, its user (text_mention) and the slice of the text it covers (mention)
Entity(type, user, full_name, slice) ==
    [type |-> type, user |-> user, full_name |-> full_name, slice |-> slice]
Dash == [text |-> "-", entities |-> <<>>]
MentionMsgs ==
    {Dash,
     [text |-> " ", entities |-> <<>>],
     [text |-> NoText, entities |-> <<>>],
     [text |-> "Bob", entities |-> <<>>],
     [text |-> "@bob", entities |-> <<Entity("mention", NoId, NoName, "@bob")>>],
     [text |-> "Bob", entities |-> <<Entity("text_mention", 2, "Bob B", "Bob")>>]}

\* messages that carry both a @username and a link to a participant, in either order
MixedMsgs ==
    {[text |-> "@bob Bob", entities |-> <<Entity("mention", NoId, NoName, "@bob"),
                                          Entity("text_mention", 2, "Bob B", "Bob")>>],
     [text |-> "Bob @bob", entities |-> <<Entity("text_mention", 2, "Bob B", "Bob"),
                                          Entity("mention", NoId, NoName, "@bob")>>]}

\* str.strip() on the texts above
Strip(text) == IF text = " " THEN "" ELSE text

\* the loop of _extract_mention_data over message.entities
RECURSIVE FirstMention(_)
FirstMention(entities) ==
    IF entities = <<>>
    THEN [found |-> FALSE, id |-> NoId, name |-> NoName]
    ELSE LET entity == Head(entities) IN
         IF entity.type = "text_mention" /\ entity.user # NoId
         THEN [found |-> TRUE, id |-> entity.user, name |-> entity.full_name]
         ELSE IF entity.type = "mention"
         THEN [found |-> TRUE, id |-> NoId, name |-> entity.slice]
         ELSE FirstMention(Tail(entities))

\* _extract_mention_data without the test for "-"
extract_mention_data_keeps_dash(message) ==
    IF message.text = NoText
    THEN [id |-> NoId, name |-> NoName]
    ELSE LET m == FirstMention(message.entities) IN
         IF m.found
         THEN [id |-> m.id, name |-> m.name]
         ELSE [id |-> NoId, name |-> Strip(message.text)]

extract_mention_data(message) ==
    IF message.text = NoText
    THEN [id |-> NoId, name |-> NoName]
    ELSE LET m == FirstMention(message.entities) IN
         IF m.found
         THEN [id |-> m.id, name |-> m.name]
         ELSE IF Strip(message.text) \in {"-", "--", ""}            \* "--" stands for the em dash
         THEN [id |-> NoId, name |-> NoName]
         ELSE [id |-> NoId, name |-> Strip(message.text)]

\* /new in any state: the state is set, the data are kept
HandleNew(u) ==
    /\ fsm' = [fsm EXCEPT ![u].state = "waiting_for_text"]
    /\ hist' = [hist EXCEPT !.entered[u] = {}]
    /\ UNCHANGED <<storeVars, last, wpc, wdue, sent_ids, delivered, wfailed>>

\* the "new reminder" button, which reaches process_keyboard_shortcut only
\* when no state handler takes the message
ProcessKeyboardShortcut(u) ==
    /\ fsm[u].state = "none"
    /\ fsm' = [fsm EXCEPT ![u].state = "waiting_for_text"]
    /\ hist' = [hist EXCEPT !.entered[u] = {}]
    /\ UNCHANGED <<storeVars, last, wpc, wdue, sent_ids, delivered, wfailed>>

\* /list or a text with the "my reminders" label in any state: state.clear(), then the list
HandleListFromAnyState(u) ==
    /\ fsm' = [fsm EXCEPT ![u] = Idle]
    /\ hist' = [hist EXCEPT !.entered[u] = {}, !.reset_from[u] = fsm[u].state]
    /\ UNCHANGED <<storeVars, last, wpc, wdue, sent_ids, delivered, wfailed>>

\* HandleBackToMenu with state.set_state(None) for state.clear(): the data stay
HandleBackToMenu_keeping_data(u) ==
    /\ fsm' = [fsm EXCEPT ![u].state = "none"]
    /\ hist' = [hist EXCEPT !.entered[u] = {}, !.reset_from[u] = fsm[u].state]
    /\ UNCHANGED <<storeVars, last, wpc, wdue, sent_ids, delivered, wfailed>>

\* a text with the "back to menu" label in any state: state.clear()
HandleBackToMenu(u) ==
    /\ fsm' = [fsm EXCEPT ![u] = Idle]
    /\ hist' = [hist EXCEPT !.entered[u] = {}, !.reset_from[u] = fsm[u].state]
    /\ UNCHANGED <<storeVars, last, wpc, wdue, sent_ids, delivered, wfailed>>

HandleText(u, text) ==
    /\ fsm[u].state = "waiting_for_text"
    /\ fsm' = [fsm EXCEPT ![u].data.text = text, ![u].state = "waiting_for_datetime"]
    /\ hist' = [hist EXCEPT !.entered[u] = @ \cup {"text"}]
    /\ UNCHANGED <<storeVars, last, wpc, wdue, sent_ids, delivered, wfailed>>

\* handle_datetime with "remind_at < datetime.now()"
handle_datetime_accepting_now(context, date_text, now) ==
    LET remind_at == parse_datetime(date_text) IN
    IF remind_at = NoTime \/ remind_at < now
    THEN context
    ELSE [context EXCEPT !.data.remind_at = remind_at, !.state = "waiting_for_mention"]

\* handle_datetime: the participant's FSM context after the message
handle_datetime(context, date_text, now) ==
    LET remind_at == parse_datetime(date_text) IN
    IF remind_at = NoTime \/ remind_at <= now
    THEN context
    ELSE [context EXCEPT !.data.remind_at = remind_at, !.state = "waiting_for_mention"]

HandleDatetime(u, date_text) ==
    /\ fsm[u].state = "waiting_for_datetime"
    /\ fsm' = [fsm EXCEPT ![u] = handle_datetime(fsm[u], date_text, clock)]
    /\ hist' = IF handle_datetime(fsm[u], date_text, clock) = fsm[u]
               THEN hist
               ELSE [hist EXCEPT !.entered[u] = @ \cup {"remind_at"}]
    /\ UNCHANGED <<storeVars, last, wpc, wdue, sent_ids, delivered, wfailed>>

\* handle_mention: the INSERT fails on a NULL text (text TEXT NOT NULL), and then
\* state.clear() is not reached
handle_mention(rs, context, chat_id, user_id, message, utcnow) ==
    LET mention == extract_mention_data(message)
        text == DataText(context.data)
        remind_at == context.data.remind_at
    IN IF text = NoText
       THEN [ok |-> FALSE, rows |-> rs, context |-> context]
       ELSE [ok |-> TRUE,
             rows |-> add_reminder(rs, chat_id, user_id, text, remind_at,
                                   mention.id, mention.name, utcnow),
             context |-> Idle]

HandleMention(c, u, message) ==
    /\ fsm[u].state = "waiting_for_mention"
    /\ Len(rows) < MaxReminders
    /\ LET r == handle_mention(rows, fsm[u], c, u, message, clock)
       IN /\ Store(r.rows)
          /\ fsm' = [fsm EXCEPT ![u] = r.context]
          /\ hist' = IF r.ok THEN [hist EXCEPT !.entered[u] = {}] ELSE hist
    /\ UNCHANGED <<clock, last, wpc, wdue, sent_ids, delivered, wfailed>>

\* ------------------------------------------------------------------ command actions
HandleCancel(c, u, arg) ==
    /\ Store(handle_cancel(rows, arg, c, u).rows)
    /\ UNCHANGED <<clock, last, botVars>>

HandleDone(c, u, arg) ==
    /\ Store(handle_done(rows, arg, c, u).rows)
    /\ UNCHANGED <<clock, last, botVars>>

HandleMove(c, u, arg, date_text) ==
    /\ Store(handle_move(rows, arg, date_text, c, u, clock).rows)
    /\ UNCHANGED <<clock, last, botVars>>

HandleReminderAction(c, u, action, id) ==
    /\ Store(handle_reminder_action(rows, action, id, c, u).rows)
    /\ UNCHANGED <<clock, last, botVars>>

\* ------------------------------------------------------------------ worker
\* One action per stretch of reminder_worker between two awaits.

\* Commit with the test on sent_ids inverted
Commit_inverted(rs, ids) == IF ids # <<>> THEN rs ELSE mark_sent(rs, Range(ids))

\* the `if sent_ids: store.mark_sent(sent_ids)` that follows the for loop
Commit(rs, ids) == IF ids = <<>> THEN rs ELSE mark_sent(rs, Range(ids))

\* the calls of store.mark_sent that statement makes
CommitCalls(ids) == IF ids = <<>> THEN 0 ELSE 1

\* asyncio.sleep returns: now, due and sent_ids are set; the first send starts, or,
\* with nothing due, the worker sleeps again
WorkerTick(limit) ==
    /\ wpc = "sleep"
    /\ \E due \in due_reminders(rows, clock, limit) :
          /\ wdue' = due
          /\ wpc' = IF due = <<>> THEN "sleep" ELSE "send"
          /\ hist' = [hist EXCEPT !.mark_sent_calls = 0, !.batch = Range(due), !.now = clock]
    /\ sent_ids' = <<>>
    /\ wfailed' = {}
    /\ UNCHANGED <<storeVars, last, fsm, delivered>>

WorkerPoll == WorkerTick(DueLimit)

\* a tick in a store with fewer due reminders than the limit, which cuts nothing
WorkerPollAll == WorkerTick(MaxReminders)

\* WorkerSendOk with store.mark_sent([id]) after each send instead of sent_ids
WorkerSendOk_eager ==
    /\ wpc = "send"
    /\ LET id == Head(wdue)
       IN /\ delivered' = [delivered EXCEPT ![id] = Min(@ + 1, 2)]
          /\ wdue' = Tail(wdue)
          /\ Store(mark_sent(rows, {id}))
          /\ sent_ids' = <<>>
          /\ IF Tail(wdue) = <<>>
             THEN /\ hist' = [hist EXCEPT !.mark_sent_calls = 1, !.batch = {}, !.now = 0]
                  /\ wfailed' = {}
                  /\ wpc' = "sleep"
             ELSE UNCHANGED <<wfailed, wpc, hist>>
    /\ UNCHANGED <<clock, last, fsm>>

\* bot.send_message returns: the id joins sent_ids; after the last row sent_ids is
\* committed and the worker sleeps (sent_ids is not read again before it is reset)
WorkerSendOk ==
    /\ wpc = "send"
    /\ LET id == Head(wdue)
           ids == Append(sent_ids, id)
       IN /\ delivered' = [delivered EXCEPT ![id] = Min(@ + 1, 2)]
          /\ wdue' = Tail(wdue)
          /\ IF Tail(wdue) = <<>>
             THEN /\ Store(Commit(rows, ids))
                  /\ hist' = [hist EXCEPT !.mark_sent_calls = CommitCalls(ids), !.batch = {}, !.now = 0]
                  /\ sent_ids' = <<>>
                  /\ wpc' = "sleep"
             ELSE /\ sent_ids' = ids
                  /\ UNCHANGED <<rows, terminated, wpc, hist>>
          /\ wfailed' = IF Tail(wdue) = <<>> THEN {} ELSE wfailed
    /\ UNCHANGED <<clock, last, fsm>>

\* WorkerSendFail with the try around the for loop: a send that raises ends the batch
WorkerSendFail_aborting ==
    /\ wpc = "send"
    /\ Store(Commit(mark_failed(rows, Head(wdue)), sent_ids))
    /\ hist' = [hist EXCEPT !.mark_sent_calls = CommitCalls(sent_ids), !.batch = {}, !.now = 0]
    /\ wdue' = <<>>
    /\ sent_ids' = <<>>
    /\ wfailed' = {}
    /\ wpc' = "sleep"
    /\ UNCHANGED <<clock, last, fsm, delivered>>

\* bot.send_message raises: mark_failed at once; after the last row as above
WorkerSendFail ==
    /\ wpc = "send"
    /\ LET id == Head(wdue)
           failed == mark_failed(rows, id)
       IN /\ wdue' = Tail(wdue)
          /\ IF Tail(wdue) = <<>>
             THEN /\ Store(Commit(failed, sent_ids))
                  /\ hist' = [hist EXCEPT !.mark_sent_calls = CommitCalls(sent_ids), !.batch = {}, !.now = 0]
                  /\ sent_ids' = <<>>
                  /\ wfailed' = {}
                  /\ wpc' = "sleep"
             ELSE /\ Store(failed)
                  /\ wfailed' = wfailed \cup {id}
                  /\ UNCHANGED <<sent_ids, wpc, hist>>
    /\ UNCHANGED <<clock, last, fsm, delivered>>

\* store.due_reminders raises (line 22, outside every try): the exception leaves
\* "while True" and the worker task is finished
WorkerDueRaises ==
    /\ wpc = "sleep"
    /\ wpc' = "dead"
    /\ UNCHANGED <<storeVars, last, fsm, wdue, sent_ids, delivered, wfailed, hist>>

\* bot.send_message raises and store.mark_failed raises inside the except block
\* (line 63): the second exception leaves the loop, sent_ids is dropped uncommitted
WorkerMarkFailedRaises ==
    /\ wpc = "send"
    /\ wpc' = "dead"
    /\ wdue' = <<>>
    /\ sent_ids' = <<>>
    /\ wfailed' = {}
    /\ hist' = [hist EXCEPT !.batch = {}, !.now = 0]
    /\ UNCHANGED <<storeVars, last, fsm, delivered>>

\* the last send of the batch returns or raises, sent_ids is not empty and
\* store.mark_sent raises (line 66, outside every try): the worker task is finished
WorkerMarkSentRaises ==
    /\ wpc = "send"
    /\ Tail(wdue) = <<>>
    /\ LET id == Head(wdue)
       IN \/ /\ delivered' = [delivered EXCEPT ![id] = Min(@ + 1, 2)]
             /\ UNCHANGED <<rows, terminated>>
          \/ /\ sent_ids # <<>>
             /\ Store(mark_failed(rows, id))
             /\ UNCHANGED delivered
    /\ wpc' = "dead"
    /\ wdue' = <<>>
    /\ sent_ids' = <<>>
    /\ wfailed' = {}
    /\ hist' = [hist EXCEPT !.batch = {}, !.now = 0]
    /\ UNCHANGED <<clock, last, fsm>>

\* main() ends (the worker task is cancelled in its await, the FSM storage is in
\* memory) and the bot is started again: ReminderStore() runs _ensure_schema
Restart ==
    /\ Store(open_store(rows))
    /\ fsm' = [u \in Users |-> Idle]
    /\ wpc' = "sleep"
    /\ wdue' = <<>>
    /\ sent_ids' = <<>>
    /\ wfailed' = {}
    /\ hist' = [hist EXCEPT !.entered = [u \in Users |-> {}], !.mark_sent_calls = 0, !.batch = {}, !.now = 0]
    /\ UNCHANGED <<clock, last, delivered>>

\* ------------------------------------------------------------------ specifications
Actions == {"done", "cancel", "other"}    \* the action part of the callback data

TextInputs == Texts \cup {NoText}         \* NoText: a message without text (a photo)

Commands ==
    \/ \E c \in Chats, u \in Users, arg \in AnyArg : HandleCancel(c, u, arg)
    \/ \E c \in Chats, u \in Users, arg \in AnyArg : HandleDone(c, u, arg)
    \/ \E c \in Chats, u \in Users, arg \in AnyArg, d \in DateTexts : HandleMove(c, u, arg, d)
    \/ \E c \in Chats, u \in Users, a \in Actions, id \in Ids :
          HandleReminderAction(c, u, a, id)

Worker ==
    \/ WorkerPoll
    \/ WorkerSendOk
    \/ WorkerSendFail

\* a capture whose mention step is "-"
PlainCapture ==
    \/ \E u \in Creators : HandleNew(u)
    \/ \E u \in Creators, x \in Texts : HandleText(u, x)
    \/ \E u \in Creators, d \in DateTexts : HandleDatetime(u, d)
    \/ \E c \in Chats, u \in Creators : HandleMention(c, u, Dash)

Capture ==
    \/ \E u \in Creators : HandleNew(u)
    \/ \E u \in Creators : ProcessKeyboardShortcut(u)
    \/ \E u \in Creators : HandleListFromAnyState(u)
    \/ \E u \in Creators : HandleBackToMenu(u)
    \/ \E u \in Creators, x \in TextInputs : HandleText(u, x)
    \/ \E u \in Creators, d \in DateTexts : HandleDatetime(u, d)
    \/ \E c \in Chats, u \in Creators, m \in MentionMsgs : HandleMention(c, u, m)

\* the bot running: captures, commands, the worker and the clock
NextRun ==
    \/ ClockTick
    \/ PlainCapture
    \/ Commands
    \/ Worker

SpecRun == Init /\ [][NextRun]_vars

\* the bot running with a worker that keeps ticking: asyncio resumes the worker when
\* its sleep ends, and every send returns or raises
SpecLive ==
    /\ Init
    /\ [][NextRun]_vars
    /\ WF_vars(WorkerPoll)
    /\ WF_vars(WorkerSendOk \/ WorkerSendFail)

\* the bot, stopped and started again at any time
Next ==
    \/ ClockTick
    \/ PlainCapture
    \/ Commands
    \/ Worker
    \/ Restart

Spec == Init /\ [][Next]_vars

\* the capture conversation alone, with every kind of message
NextCapture ==
    \/ ClockTick
    \/ Capture

SpecCapture == Init /\ [][NextCapture]_vars

\* the capture conversation with the mixed messages at the mention step as well
NextMention ==
    \/ ClockTick
    \/ Capture
    \/ \E c \in Chats, u \in Creators, m \in MixedMsgs : HandleMention(c, u, m)

SpecMention == Init /\ [][NextMention]_vars

\* a database file written by the older version of the bot, whose table has neither
\* status nor the mention columns: any rows it may hold
LegacyRows ==
    [chat_id : Chats, creator_id : Users, text : Texts,
     remind_at : {Iso(t) : t \in Instants}, is_sent : {0, 1}, created_at : 0..MaxClock]
LegacyTables == UNION {[1..n -> LegacyRows] : n \in 0..MaxReminders}

InitLegacy ==
    /\ rows \in LegacyTables
    /\ clock = 0
    /\ terminated = {}
    /\ last = NoCall
    /\ fsm = [u \in Users |-> Idle]
    /\ wpc = "sleep"
    /\ wdue = <<>>
    /\ sent_ids = <<>>
    /\ delivered = [i \in Ids |-> 0]
    /\ wfailed = {}
    /\ hist = NoHist

\* the file is opened, listed, closed and opened again
NextLegacy ==
    \/ StoreReopen
    \/ \E c \in Chats, u \in Users : last.op # "none" /\ StoreList(c, u)

SpecLegacy == InitLegacy /\ [][NextLegacy]_vars

\* the bot running with ticks that take every due reminder, the worker kept going
NextBatch ==
    \/ ClockTick
    \/ PlainCapture
    \/ Commands
    \/ WorkerPollAll
    \/ WorkerSendOk
    \/ WorkerSendFail

SpecBatch ==
    /\ Init
    /\ [][NextBatch]_vars
    /\ WF_vars(WorkerPollAll)
    /\ WF_vars(WorkerSendOk \/ WorkerSendFail)

\* the bot running over a store whose calls can raise (the file is locked, the
\* disk is full)
NextFaulty ==
    \/ NextBatch
    \/ WorkerDueRaises
    \/ WorkerMarkFailedRaises
    \/ WorkerMarkSentRaises

SpecFaulty == Init /\ [][NextFaulty]_vars

\* the bot with ticks that take every due reminder, stopped and started again at
\* any time: main() cancels the worker task wherever it is suspended
NextShutdown ==
    \/ NextBatch
    \/ Restart

SpecShutdown == Init /\ [][NextShutdown]_vars

\* ------------------------------------------------------------------ claims
Limits == 1..(MaxReminders + 1)
Ascending(rs, s) == \A a, b \in DOMAIN s : a < b => rs[s[a]].remind_at <= rs[s[b]].remind_at
ScheduledBy(rs, now) ==
    {i \in DOMAIN rs : rs[i].status = "scheduled" /\ rs[i].remind_at <= Iso(now)}

\* the reminders that are due at the clock's instant
DueNow == {i \in DOMAIN rows : rows[i].status = "scheduled" /\ rows[i].remind_at <= Iso(clock)}

\* C1: while the worker ticks and participants add, cancel, complete and move
\* reminders, no reminder id is delivered with success more than once.
C1_AtMostOnce ==
    \A id \in Ids : delivered[id] <= 1

\* a reminder delivered once is sent, and the worker is sending in a later tick
C1_Witness ==
    /\ wpc = "send"
    /\ \E id \in DOMAIN rows :
          /\ delivered[id] = 1
          /\ rows[id].status = "sent"
          /\ Head(wdue) # id

\* C2: with a worker that keeps ticking, every reminder that is due is in time
\* attempted (and is sent or failed), unless it is cancelled, completed or moved
\* first; also with more reminders due than one tick fetches.
C2_NoDueItemLost ==
    \A id \in Ids :
        (id \in DueNow) ~>
            (/\ id \in DOMAIN rows
             /\ \/ rows[id].status \in {"sent", "failed", "cancelled", "completed"}
                \/ rows[id].remind_at > Iso(clock))

\* more reminders are due than one tick fetches, and the worker is sending one
C2_Witness ==
    /\ wpc = "send"
    /\ Cardinality(DueNow) > DueLimit
    /\ Head(wdue) \in DueNow

\* C3: due(now, limit) returns exactly the scheduled reminders with remindAt <= now
\* (both taken to the minute), earliest first, cut to the first `limit`; a reminder
\* added with remindAt = T is returned by due(now = T) and by no due(now) with now
\* in a minute before T's.
C3_DueExact ==
    /\ \A now \in Instants, limit \in Limits :
         /\ due_reminders(rows, now, limit) # {}
         /\ \A s \in due_reminders(rows, now, limit) :
              /\ Range(s) \subseteq ScheduledBy(rows, now)
              /\ Len(s) = Min(limit, Cardinality(ScheduledBy(rows, now)))
              /\ Cardinality(Range(s)) = Len(s)
              /\ Ascending(rows, s)
              /\ \A q \in ScheduledBy(rows, now) \ Range(s) :
                    \A k \in DOMAIN s : rows[s[k]].remind_at <= rows[q].remind_at
    /\ \A T \in Instants, c \in Chats, u \in Creators, x \in Texts :
         LET added == add_reminder(rows, c, u, x, T, NoId, NoName, clock)
             id == Len(rows) + 1
         IN /\ \A s \in due_reminders(added, T, MaxReminders + 1) : id \in Range(s)
            /\ \A now \in Instants, limit \in Limits :
                 Iso(now) < Iso(T) =>
                    \A s \in due_reminders(added, now, limit) : id \notin Range(s)

\* a due() call at an instant with a sub-minute part returned a reminder whose
\* remindAt is that very minute, and left another due reminder to the next call
C3_Witness ==
    /\ last.op = "due"
    /\ last.arg # Iso(last.arg)
    /\ Len(last.out) >= 1
    /\ rows[last.out[1]].remind_at = Iso(last.arg)
    /\ Cardinality(ScheduledBy(rows, last.arg)) > Len(last.out)

\* C4: a reminder whose status has been failed, cancelled or completed is returned
\* by no later due() call, whatever happened in between.
C4_NeverDueAgain ==
    \A id \in terminated, now \in Instants, limit \in Limits :
        \A s \in due_reminders(rows, now, limit) : id \notin Range(s)

\* C5: markSent changes a listed reminder to sent iff it is scheduled at the call;
\* a listed reminder that is failed, cancelled, completed or sent is left as it was.
C5_MarkSentOnlyScheduled ==
    last.op = "mark_sent" =>
        \A id \in last.ids \cap DOMAIN rows :
            IF last.pre[id] = "scheduled"
            THEN rows[id].status = "sent"
            ELSE rows[id].status = last.pre[id]

\* C6: for every set of scheduled reminders, markSent twice leaves the store as
\* markSent once does, with each of them sent.
C6_MarkSentIdempotent ==
    \A ids \in SUBSET AnyId :
        (\A id \in ids : StatusOf(rows, id) = "scheduled") =>
            LET once == mark_sent(rows, ids)
                twice == mark_sent(once, ids)
            IN /\ twice = once
               /\ \A id \in ids : once[id].status = "sent" /\ once[id].is_sent = 1

\* markSent was called on reminders it had already marked sent
C6_Witness ==
    /\ last.op = "mark_sent"
    /\ last.ids # {}
    /\ \A id \in last.ids : last.pre[id] = "sent" /\ rows[id].status = "sent" /\ rows[id].is_sent = 1

\* the statuses list() reports for a reminder to its creator
ListedStatus(rs, id) ==
    LET outs == list_reminders(rs, rs[id].chat_id, rs[id].creator_id, ListLimit)
    IN UNION {{rs[s[k]].status : k \in {j \in DOMAIN s : s[j] = id}} : s \in outs}

\* C7: mark_failed on a scheduled reminder makes list report 'failed', and
\* mark_sent([id]) on that failed reminder makes list report 'sent'.
C7_FailedThenSent ==
    \A id \in DOMAIN rows :
        rows[id].status = "scheduled" =>
            LET failed == mark_failed(rows, id)
                sent == mark_sent(failed, {id})
            IN /\ ListedStatus(failed, id) = {"failed"}
               /\ ListedStatus(sent, id) = {"sent"}

\* mark_sent was called on a failed reminder, which is sent now
C7_Witness ==
    /\ last.op = "mark_sent"
    /\ \E id \in last.ids :
          /\ last.pre[id] = "failed"
          /\ id \in DOMAIN rows
          /\ ListedStatus(rows, id) = {"sent"}

\* C8: cancel by the owner on a scheduled reminder returns true and sets the status
\* to cancelled; on a missing reminder or one that is completed, cancelled or failed
\* it returns false and leaves the store unchanged. /cancel reports the same.
C8_Cancel ==
    \A id \in AnyId, c \in Chats, u \in Users :
        LET r == cancel_reminder(rows, id, c, u)
            h == handle_cancel(rows, id, c, u)
        IN /\ (/\ id \in DOMAIN rows
               /\ rows[id].chat_id = c /\ rows[id].creator_id = u
               /\ rows[id].status = "scheduled") =>
                  /\ r.ok
                  /\ r.rows = [rows EXCEPT ![id].status = "cancelled"]
                  /\ h = [rows |-> r.rows, answer |-> "cancelled"]
           /\ (id \notin DOMAIN rows \/ StatusOf(rows, id) \in Terminal) =>
                  /\ ~r.ok
                  /\ r.rows = rows
                  /\ h = [rows |-> rows, answer |-> "not_cancelled"]

\* the owner cancelled a scheduled reminder, beside a terminal one
C8_Witness ==
    /\ last.op = "cancel"
    /\ last.ok
    /\ \E id \in last.ids : last.pre[id] = "scheduled" /\ rows[id].status = "cancelled"
    /\ \E other \in DOMAIN rows : other \notin last.ids /\ rows[other].status \in Terminal

\* C9: complete by the owner returns true and sets the status to completed exactly
\* when the status is scheduled or sent; from failed, cancelled or completed, or for
\* a missing id, it returns false and changes nothing. /done reports the same.
C9_Complete ==
    \A id \in AnyId, c \in Chats, u \in Users :
        (id \in DOMAIN rows => rows[id].chat_id = c /\ rows[id].creator_id = u) =>
            LET r == complete_reminder(rows, id, c, u)
                h == handle_done(rows, id, c, u)
            IN /\ r.ok <=> StatusOf(rows, id) \in {"scheduled", "sent"}
               /\ r.ok => r.rows = [rows EXCEPT ![id].status = "completed"]
               /\ ~r.ok => r.rows = rows
               /\ h = [rows |-> r.rows, answer |-> IF r.ok THEN "completed" ELSE "not_completed"]

\* the owner completed a reminder that had been sent
C9_Witness ==
    /\ last.op = "complete"
    /\ last.ok
    /\ \E id \in last.ids : last.pre[id] = "sent" /\ rows[id].status = "completed"

\* C10: reschedule returns true only when the status is scheduled and newRemindAt is
\* strictly after now; on success only remindAt changes; on a reminder in any other
\* status it returns false and remindAt is unchanged. /move reports the same.
C10_Reschedule ==
    \A id \in AnyId, c \in Chats, u \in Users :
        /\ \A t \in Instants :
             LET r == reschedule_reminder(rows, id, c, u, t, clock) IN
             /\ r.ok =>
                  /\ StatusOf(rows, id) = "scheduled"
                  /\ t > clock
                  /\ DOMAIN r.rows = DOMAIN rows
                  /\ \A i \in DOMAIN rows : i # id => r.rows[i] = rows[i]
                  /\ [r.rows[id] EXCEPT !.remind_at = rows[id].remind_at] = rows[id]
                  /\ r.rows[id].remind_at = Iso(t)
             /\ (id \in DOMAIN rows /\ rows[id].status # "scheduled") =>
                  ~r.ok /\ r.rows = rows
        /\ \A d \in DateTexts :
             LET h == handle_move(rows, id, d, c, u, clock) IN
             /\ h.answer = "moved" =>
                  /\ StatusOf(rows, id) = "scheduled"
                  /\ parse_datetime(d) > clock
                  /\ h.rows = [rows EXCEPT ![id].remind_at = parse_datetime(d)]
             /\ (id \in DOMAIN rows /\ rows[id].status # "scheduled") =>
                  h.answer # "moved" /\ h.rows = rows

\* after the clock has advanced, the owner moved a scheduled reminder
C10_Witness ==
    /\ last.op = "reschedule"
    /\ last.ok
    /\ clock > 0
    /\ \E id \in last.ids :
          /\ last.pre[id] = "scheduled"
          /\ rows[id].status = "scheduled"
          /\ rows[id].remind_at >= Iso(clock)
    /\ \E other \in DOMAIN rows : rows[other].status = "completed"

\* chats a command can come from: the reminders' chat and another one
AnyChat == Chats \cup {8}

\* C11: for every reminder, in whatever status, and every caller whose creator id or
\* chat id differs from the reminder's, cancel, complete and reschedule return false
\* and leave the whole table as it was; so do /cancel, /done, /move and the buttons.
C11_NotOwner ==
    \A id \in DOMAIN rows, c \in AnyChat, u \in Users :
        (c # rows[id].chat_id \/ u # rows[id].creator_id) =>
            /\ cancel_reminder(rows, id, c, u) = [ok |-> FALSE, rows |-> rows]
            /\ complete_reminder(rows, id, c, u) = [ok |-> FALSE, rows |-> rows]
            /\ \A t \in Instants :
                 reschedule_reminder(rows, id, c, u, t, clock) = [ok |-> FALSE, rows |-> rows]
            /\ handle_cancel(rows, id, c, u).rows = rows
            /\ handle_done(rows, id, c, u).rows = rows
            /\ \A d \in DateTexts : handle_move(rows, id, d, c, u, clock).rows = rows
            /\ \A a \in Actions :
                 /\ handle_reminder_action(rows, a, id, c, u).rows = rows
                 /\ handle_reminder_action(rows, a, id, c, u).answer \in {"not_updated", "unknown"}

\* a participant who is not the creator tried to cancel a scheduled reminder, which
\* is scheduled still, beside a reminder that is sent
C11_Witness ==
    /\ last.op = "cancel"
    /\ ~last.ok
    /\ \E id \in last.ids :
          /\ last.pre[id] = "scheduled"
          /\ rows[id].status = "scheduled"
    /\ \E other \in DOMAIN rows : rows[other].status = "sent"

\* the status changes the specification's state diagram has
AllowedStep ==
    {<<"scheduled", "sent">>, <<"scheduled", "failed">>, <<"scheduled", "cancelled">>,
     <<"scheduled", "completed">>, <<"sent", "completed">>}

\* C12: whatever the worker, the commands and a restart do, and in whatever order,
\* every change of a reminder's status is scheduled->sent, scheduled->failed,
\* scheduled->cancelled, scheduled->completed or sent->completed; so a completed or
\* cancelled reminder keeps its status for ever.
C12_StatusTransitions ==
    [][\A id \in DOMAIN rows :
          /\ id \in DOMAIN rows'
          /\ rows'[id].status # rows[id].status =>
                <<rows[id].status, rows'[id].status>> \in AllowedStep]_vars

\* the reminders of the worker's tick that mark_sent will be called with if the
\* send in flight returns: those sent already and the one being sent
InFlight == Range(sent_ids) \cup (IF wpc = "send" THEN {Head(wdue)} ELSE {})

\* C13: when the worker's markSent and a participant's cancel, complete or reschedule
\* meet on one reminder, the first update to take it out of scheduled is the only
\* one that succeeds: the worker's markSent leaves a reminder that is scheduled no
\* longer as it is, and cancel and reschedule return false on it and change nothing,
\* as complete does on a failed, cancelled or completed one. (complete on a sent
\* reminder and any attempt after a reschedule are steps the state diagram has.)
C13_OneWinner ==
    /\ \A id \in InFlight :
          rows[id].status # "scheduled" => mark_sent(rows, {id}) = rows
    /\ \A id \in DOMAIN rows, c \in Chats, u \in Users :
          /\ rows[id].status # "scheduled" =>
                /\ cancel_reminder(rows, id, c, u) = [ok |-> FALSE, rows |-> rows]
                /\ handle_reminder_action(rows, "cancel", id, c, u).rows = rows
                /\ \A t \in Instants :
                      reschedule_reminder(rows, id, c, u, t, clock) = [ok |-> FALSE, rows |-> rows]
          /\ rows[id].status \in Terminal =>
                /\ complete_reminder(rows, id, c, u) = [ok |-> FALSE, rows |-> rows]
                /\ handle_reminder_action(rows, "done", id, c, u).rows = rows

\* the texts add can be called with: a participant's text and the empty string
AnyText == Texts \cup {""}

\* what add_reminder writes: one row more, the rows before it as they were
WritesOneRow(rs, added) ==
    /\ Len(added) = Len(rs) + 1
    /\ \A i \in DOMAIN rs : added[i] = rs[i]
    /\ added[Len(added)].status = "scheduled"
    /\ added[Len(added)].is_sent = 0

Attempted == wfailed \cup Range(sent_ids)

\* C15: a send that fails does not end the batch. In a tick, whichever of the
\* earlier sends failed, every candidate of due() is attempted exactly once (each
\* attempt takes the head of what is left, which was not attempted before, and
\* leaves the rest in place), and the worker comes to its sleep, from which the
\* next tick starts.
C15_BatchGoesOn ==
    /\ [](/\ Attempted \cap Range(wdue) = {}
          /\ \A a, b \in DOMAIN wdue : a # b => wdue[a] # wdue[b]
          /\ (wpc = "send") <=> (wdue # <<>>))
    /\ [][wpc = "send" =>
             \/ UNCHANGED <<wpc, wdue, sent_ids, wfailed>>
             \/ /\ wdue' = Tail(wdue)
                /\ wpc' = IF Tail(wdue) = <<>> THEN "sleep" ELSE "send"
                /\ wpc' = "send" => Attempted' = Attempted \cup {Head(wdue)}]_vars
    /\ (wpc = "send") ~> (wpc = "sleep")

\* the first send of a tick has failed and the worker is sending the next candidate
C15_Witness ==
    /\ wpc = "send"
    /\ wfailed # {}
    /\ wdue # <<>>
    /\ Head(wdue) \notin wfailed
    /\ \A id \in wfailed : rows[id].status = "failed"

IsLegacy(rs) == \A i \in DOMAIN rs : "status" \notin DOMAIN rs[i]

\* C16: opening a store whose table has only the legacy columns keeps every row's
\* id, text, remindAt and createdAt (and chat, creator and is_sent), sets status to
\* 'sent' exactly for the rows with is_sent = 1 and to 'scheduled' for the others,
\* as list then reports, and opening it a second time changes nothing.
C16_LegacyMigration ==
    /\ IsLegacy(rows) =>
          LET opened == open_store(rows) IN
          /\ DOMAIN opened = DOMAIN rows
          /\ \A id \in DOMAIN rows :
                /\ \A column \in DOMAIN rows[id] : opened[id][column] = rows[id][column]
                /\ opened[id].status = IF rows[id].is_sent = 1 THEN "sent" ELSE "scheduled"
                /\ opened[id].mention_target_id = NoId
                /\ opened[id].mention_target_name = NoName
                /\ ListedStatus(opened, id) = {opened[id].status}
          /\ open_store(opened) = opened
    /\ last.op = "reopen" =>
          /\ \A id \in last.ids :
                last.pre[id] = NoColumn =>
                    rows[id].status = IF rows[id].is_sent = 1 THEN "sent" ELSE "scheduled"
          /\ open_store(rows) = rows

\* a legacy file with a delivered and an undelivered reminder has been opened
C16_Witness ==
    /\ last.op = "reopen"
    /\ \E a, b \in last.ids :
          /\ last.pre[a] = NoColumn
          /\ last.pre[b] = NoColumn
          /\ rows[a].is_sent = 1 /\ rows[a].status = "sent"
          /\ rows[b].is_sent = 0 /\ rows[b].status = "scheduled"

\* C17: on a store that has been migrated, whatever reminders it holds (completed,
\* cancelled and failed ones too), closing and opening it again leaves every row's
\* status and every other field as it was.
C17_ReopenNoOp ==
    open_store(rows) = rows

\* the table as it is, and with one more reminder of any participant in any chat
WithAnother(rs) ==
    {rs} \cup {add_reminder(rs, c, u, x, clock, NoId, NoName, clock) :
                  c \in AnyChat, u \in Users, x \in Texts}

MineIn(rs, chat_id, creator_id) ==
    {i \in DOMAIN rs : rs[i].chat_id = chat_id /\ rs[i].creator_id = creator_id}

\* C18: list(chat, creator, limit) returns only reminders of that chat and that
\* creator, in whatever status (none is ever left out or deleted), newest-created
\* first, cut to the first `limit`; and a reminder that was added, returned by due
\* and marked sent is listed with status 'sent'.
C18_List ==
    /\ \A rs \in WithAnother(rows), c \in AnyChat, u \in Users, limit \in Limits :
          /\ list_reminders(rs, c, u, limit) # {}
          /\ \A s \in list_reminders(rs, c, u, limit) :
                /\ Range(s) \subseteq MineIn(rs, c, u)
                /\ Len(s) = Min(limit, Cardinality(MineIn(rs, c, u)))
                /\ Cardinality(Range(s)) = Len(s)
                /\ \A a, b \in DOMAIN s : a < b => rs[s[a]].created_at >= rs[s[b]].created_at
                /\ \A q \in MineIn(rs, c, u) \ Range(s) :
                      \A k \in DOMAIN s : rs[s[k]].created_at >= rs[q].created_at
    /\ \A now \in Instants :
          \A id \in DueSet(rows, now) : ListedStatus(mark_sent(rows, {id}), id) = {"sent"}
    /\ last.op = "mark_sent" =>
          \A id \in last.ids \cap DOMAIN rows : ListedStatus(rows, id) = {"sent"}
    /\ last.op = "list" => \A k \in DOMAIN last.out : last.out[k] \in DOMAIN rows

\* list returned two reminders, the newer first, one of them sent and the other
\* failed, cancelled or completed
C18_Witness ==
    /\ last.op = "list"
    /\ Len(last.out) = 2
    /\ rows[last.out[1]].created_at > rows[last.out[2]].created_at
    /\ \E k \in DOMAIN last.out : rows[last.out[k]].status = "sent" /\ rows[last.out[k]].is_sent = 1
    /\ \E k \in DOMAIN last.out : rows[last.out[k]].status \in Terminal

\* the mention a message at the mention step stands for: none for "-", a blank or
\* no text, the participant an entity links to, else the text as a name
MentionOf(message) ==
    IF message.text \in {"-", " ", "", NoText}
    THEN [id |-> NoId, name |-> NoName]
    ELSE IF message.entities = <<>>
    THEN [id |-> NoId, name |-> message.text]
    ELSE IF message.entities[1].type = "text_mention"
    THEN [id |-> message.entities[1].user, name |-> message.entities[1].full_name]
    ELSE [id |-> NoId, name |-> message.entities[1].slice]

\* the row a capture writes
CapturedRow(c, u, data, message) ==
    [chat_id |-> c, creator_id |-> u, text |-> data.text, remind_at |-> data.remind_at,
     is_sent |-> 0, status |-> "scheduled",
     mention_target_id |-> MentionOf(message).id,
     mention_target_name |-> MentionOf(message).name,
     created_at |-> clock]

\* C19: a capture fed a text, then a future date and time, then a mention input
\* writes exactly one reminder, at the mention step and at no earlier one: the
\* row carries the buffered text and remindAt and the mention the input stands
\* for (none for "-" or a blank, a name for plain text, the participant's id for
\* an entity that links to one), and the participant is idle afterwards.
C19_CaptureWritesOnce ==
    /\ [][rows' # rows =>
             \E c \in Chats, u \in Creators, m \in MentionMsgs :
                /\ fsm[u].state = "waiting_for_mention"
                /\ fsm[u].data.text \in Texts
                /\ fsm[u].data.remind_at \in {parse_datetime(d) : d \in Minutes}
                /\ rows' = Append(rows, CapturedRow(c, u, fsm[u].data, m))
                /\ fsm'[u] = Idle]_vars
    /\ [][\A c \in Chats, u \in Creators, m \in MentionMsgs :
             (HandleMention(c, u, m) /\ fsm[u].data.text \in Texts) =>
                /\ rows' = Append(rows, CapturedRow(c, u, fsm[u].data, m))
                /\ fsm'[u] = Idle]_vars
    /\ [](\A u \in Creators :
             fsm[u].state = "waiting_for_mention" => fsm[u].data.remind_at # NoTime)

\* two captures are done: one named a participant by an entity, the other sent "-"
C19_Witness ==
    /\ Len(rows) = 2
    /\ fsm[rows[2].creator_id] = Idle
    /\ \E a, b \in DOMAIN rows :
          /\ rows[a].mention_target_id # NoId
          /\ rows[a].text \in Texts
          /\ rows[b].mention_target_id = NoId /\ rows[b].mention_target_name = NoName
          /\ rows[b].remind_at > rows[b].created_at

\* a well-formed date text that names an instant not after now, or a malformed one
Rejected(date_text, now) ==
    \/ date_text = BadDate
    \/ date_text \in Minutes /\ date_text * MinuteLen <= now

\* C20: at the datetime step a message that is malformed, or names a time not
\* strictly after now, changes nothing: the participant stays at the datetime step
\* with the buffered text as it was and no remindAt buffered from it, and no
\* reminder is written; so a participant who leaves that step for the mention step
\* carries a remindAt strictly after now.
C20_DatetimeRejected ==
    /\ [](\A u \in Creators, d \in DateTexts :
             (fsm[u].state = "waiting_for_datetime" /\ Rejected(d, clock)) =>
                handle_datetime(fsm[u], d, clock) = fsm[u])
    /\ [][\A u \in Creators :
             fsm[u].state = "waiting_for_datetime" =>
                /\ rows' = rows
                /\ fsm'[u].state = "waiting_for_datetime" => fsm'[u] = fsm[u]
                /\ fsm'[u].state = "waiting_for_mention" =>
                      /\ fsm'[u].data.text = fsm[u].data.text
                      /\ fsm'[u].data.remind_at > clock]_vars

\* a participant with a buffered text is at the datetime step at an instant that
\* a well-formed date text names exactly, a reminder captured before
C20_Witness ==
    \E u \in Creators :
        /\ fsm[u].state = "waiting_for_datetime"
        /\ fsm[u].data.text \in Texts
        /\ clock > 0
        /\ \E d \in Minutes : parse_datetime(d) = clock
        /\ rows # <<>>

\* C21: the commit at the mention step discards the buffered capture whether the add
\* succeeds or fails: whatever the message, the participant is idle with an empty
\* buffer after it.
C21_CommitClears ==
    \A c \in Chats, u \in Creators, m \in MentionMsgs :
        fsm[u].state = "waiting_for_mention" =>
            handle_mention(rows, fsm[u], c, u, m, clock).context = Idle

Stages == {"waiting_for_text", "waiting_for_datetime", "waiting_for_mention"}

\* C22: from every capture stage /list, the "my reminders" text and the "back to
\* menu" text make the participant idle with an empty buffer and write no reminder;
\* and what an idle participant sends next continues nothing: it writes no reminder
\* and at most starts a capture with an empty buffer.
C22_Reset ==
    /\ [][\A u \in Creators :
             (HandleListFromAnyState(u) \/ HandleBackToMenu(u)) =>
                 /\ fsm'[u] = Idle
                 /\ rows' = rows]_vars
    /\ [][\A u \in Creators :
             fsm[u].state = "none" =>
                 /\ rows' = rows
                 /\ fsm'[u].state \in {"none", "waiting_for_text"}
                 /\ fsm'[u].data = NoData]_vars
    /\ [](\A u \in Creators : fsm[u].state = "none" => fsm[u] = Idle)

\* a participant who had buffered a text and a time was reset at the mention step,
\* has started again and is asked for the text, the buffer empty
C22_Witness ==
    \E u \in Creators :
        /\ hist.reset_from[u] = "waiting_for_mention"
        /\ fsm[u].state = "waiting_for_text"
        /\ fsm[u].data = NoData
        /\ rows = <<>>

\* C23: a reminder for which cancel or complete returned true is not sent
\* afterwards: the worker starts no send for a reminder that is cancelled or
\* completed, also when the command came while the tick that had fetched the
\* reminder was still sending an earlier one of its batch.
C23_NoSendAfterCancel ==
    [][(wpc' = "send" /\ wdue' # wdue) =>
          rows'[Head(wdue')].status \notin {"cancelled", "completed"}]_vars

\* the step of the worker that handles the head of its batch
AttemptStep == wpc = "send" /\ wdue' = Tail(wdue)
FailStep == AttemptStep /\ delivered' = delivered
TickEnd == AttemptStep /\ wpc' = "sleep"

\* the ids the tick has sent with success, the head included when its send returns
Succeeded == Range(sent_ids) \cup (IF delivered' # delivered THEN {Head(wdue)} ELSE {})

\* what C24 says of mark_failed and of the ids given to mark_sent
EagerFailLateSent ==
    /\ [][FailStep =>
             /\ rows[Head(wdue)].status = "scheduled" => rows'[Head(wdue)].status = "failed"
             /\ Head(wdue) \notin Succeeded]_vars
    /\ [][(AttemptStep /\ ~TickEnd) =>
             \A id \in DOMAIN rows : rows'[id].is_sent = rows[id].is_sent]_vars
    /\ [][TickEnd =>
             /\ \A id \in DOMAIN rows : rows'[id].is_sent = IF id \in Succeeded THEN 1 ELSE rows[id].is_sent
             /\ \A id \in Succeeded : rows'[id].status = "sent"
             /\ Succeeded \cap wfailed = {}
             /\ hist.batch = Succeeded \cup wfailed \cup (IF FailStep THEN {Head(wdue)} ELSE {})]_vars
    /\ [](wpc = "send" => Range(sent_ids) \cap wfailed = {})

\* C24: in a tick, mark_failed is called for a failed reminder before the next
\* send starts, and mark_sent is called exactly once, after the last candidate, with
\* exactly the ids whose send succeeded (which are none of the failed ones).
C24_MarkSentOnce ==
    /\ EagerFailLateSent
    /\ [][TickEnd => hist'.mark_sent_calls = 1]_vars

\* C24 as amended: mark_sent is called at most once in a tick, after the last
\* candidate: once with exactly the ids whose send succeeded when there is one, and
\* not at all when every send of the tick failed.
C24_MarkSentAtMostOnce ==
    /\ EagerFailLateSent
    /\ [][TickEnd => hist'.mark_sent_calls = IF Succeeded = {} THEN 0 ELSE 1]_vars
    /\ [][(wpc = "send" /\ ~TickEnd) => hist'.mark_sent_calls = 0]_vars

\* a tick of two candidates has ended: the send of one failed, the send of the other
\* succeeded, and mark_sent was called once
C24_Witness ==
    /\ wpc = "sleep"
    /\ hist.mark_sent_calls = 1
    /\ \E a, b \in DOMAIN rows :
          /\ rows[a].status = "failed" /\ delivered[a] = 0
          /\ rows[b].status = "sent" /\ delivered[b] = 1
          /\ rows[a].remind_at = rows[b].remind_at
          /\ rows[a].created_at < rows[a].remind_at
          /\ rows[b].created_at < rows[b].remind_at

\* C25: every reminder the capture conversation writes has a remindAt strictly
\* after the clock at the moment the row is created, however long the participant
\* waits between the date and the mention.
C25_FutureAtCreation ==
    [][\A c \in Chats, u \in Creators, m \in MentionMsgs :
          (HandleMention(c, u, m) /\ Len(rows') > Len(rows)) =>
              rows'[Len(rows')].remind_at > clock]_vars

\* the participants a message's entities link to
Resolvable(message) ==
    {message.entities[i].user :
        i \in {j \in DOMAIN message.entities :
                  message.entities[j].type = "text_mention" /\ message.entities[j].user # NoId}}

\* C26: a mention input that carries a link to a participant and a bare @username,
\* in either order, is committed with the participant's id; a name alone is stored
\* only when the input links to no participant, and nothing when it has neither.
C26_PrefersResolvable ==
    [][\A c \in Chats, u \in Creators, m \in MentionMsgs \cup MixedMsgs :
          (HandleMention(c, u, m) /\ Len(rows') > Len(rows)) =>
              LET row == rows'[Len(rows')] IN
              /\ Resolvable(m) # {} => row.mention_target_id \in Resolvable(m)
              /\ Resolvable(m) = {} => row.mention_target_id = NoId
              /\ (m.text \in {"-", " ", "", NoText}) =>
                    row.mention_target_id = NoId /\ row.mention_target_name = NoName]_vars

\* the two ways the is_sent flag and the status of a row can contradict each other
Disagree(r) ==
    \/ r.is_sent = 1 /\ r.status = "scheduled"
    \/ r.is_sent = 0 /\ r.status = "sent"

\* C27: in every store state no row has is_sent = 1 with status scheduled or
\* is_sent = 0 with status sent, and the two are written together: a step that
\* changes a row's is_sent leaves it sent with is_sent = 1, a step that makes a row
\* sent sets its is_sent, and a step that makes a row scheduled leaves is_sent = 0.
C27_FlagAgreesWithStatus ==
    /\ [](\A id \in DOMAIN rows : ~Disagree(rows[id]))
    /\ [][\A id \in DOMAIN rows :
             /\ rows'[id].is_sent # rows[id].is_sent =>
                    rows'[id].is_sent = 1 /\ rows'[id].status = "sent"
             /\ (rows'[id].status = "sent" /\ rows[id].status # "sent") =>
                    rows'[id].is_sent = 1
             /\ (rows'[id].status = "scheduled" /\ rows[id].status # "scheduled") =>
                    rows'[id].is_sent = 0]_vars

\* mark_sent has written one row, a sent row has been completed, and a third
\* status is held by a row whose flag was never set
C27_Witness ==
    /\ last.op = "mark_sent"
    /\ \E a, b \in DOMAIN rows :
          /\ rows[a].status = "sent" /\ rows[a].is_sent = 1
          /\ rows[b].status \in {"completed", "cancelled", "failed"}

\* C28: a store call that raises during a tick (due_reminders, mark_failed or
\* mark_sent) leaves the worker in its loop, asleep until the next tick.
C28_LoopSurvivesStoreError ==
    [][(WorkerDueRaises \/ WorkerMarkFailedRaises \/ WorkerMarkSentRaises) =>
          wpc' = "sleep"]_vars

\* C29: when the bot is stopped, the batch in flight has been committed: every
\* reminder whose send succeeded before the stop is stored as sent, so that the
\* restarted worker does not find it due again.
C29_ShutdownCommitsBatch ==
    [][Restart => \A id \in Range(sent_ids) : rows'[id].status = "sent"]_vars

\* both values of u's buffer were written by handle_text and handle_datetime after
\* u's latest /new
EnteredSinceStart(u) == hist.entered[u] = {"text", "remind_at"}

\* C30: while a participant is at the mention step, the buffer holds a text and a
\* remind_at, both entered after the participant's latest /new, so that nothing
\* left by an earlier capture can be committed.
C30_BufferFresh ==
    \A u \in Creators :
        fsm[u].state = "waiting_for_mention" =>
            /\ EnteredSinceStart(u)
            /\ fsm[u].data.text \in Texts
            /\ fsm[u].data.remind_at \in Instants

\* C31: the worker starts a send, counts a delivery and marks a row sent only while
\* the row's stored remind_at is <= the now of the tick under way; a reminder moved
\* to a later time is neither delivered nor marked sent on account of its old time.
C31_SendsOnlyDue ==
    [][/\ (wpc' = "send" /\ wdue' # wdue) =>
              rows'[Head(wdue')].remind_at <= Iso(hist'.now)
       /\ \A id \in DOMAIN rows :
              (wpc = "send" /\ rows'[id].status = "sent" /\ rows[id].status # "sent") =>
                  rows[id].remind_at <= Iso(hist.now)]_vars

====
